---- MODULE Spec2Model ----
(***************************************************************************)
(* Model of the log engine MultiRecordLog (src/src/multi_record_log.rs).    *)
(*                                                                         *)
(* The engine multiplexes several queues into one rolling log.  Every       *)
(* handler of the engine is split at its suspension points (the awaits on   *)
(* the record writer), because the process may crash at each of them.       *)
(* MemQueues (crate::mem) and the rolling writer and reader                 *)
(* (crate::rolling, crate::recordlog) are not part of the sources at hand:  *)
(* they are modelled from sections 4.2 and 4.4 of the specification.        *)
(***************************************************************************)
EXTENDS Integers, Sequences, FiniteSets, TLC

\* Bounds of the model.
MaxFrames == 5      \* frames in the log when an operation may still start
FileCap == 2        \* frames a file holds before the writer rolls
MaxArg == 1         \* positions 0..MaxArg are offered as arguments

Queues == {"q1", "q2"}
Payloads == {"a", "b"}

\* Option<u64>::None of append_record's position_opt.
NoPos == -1
ArgPositions == 0..MaxArg

VARIABLES
    mem,        \* in_mem_queues: queue name -> MemQueue
    up,         \* TRUE while an engine exists (open() returned Ok)
    files,      \* the rolling files: file number -> sequence of frames
    cur,        \* the writer's current file number
    lo,         \* the smallest file number not deleted by gc
    unflushed,  \* frames written since the last flush
    pc,         \* the handler in progress and its local variables
    ret,        \* the last value returned by a handler
    preMem,     \* history: in_mem_queues as of the operation step that wrote
                \* the last frame; [valid |-> FALSE] when that frame is gone
    codec       \* the record codec at work: a record, its bytes, the result

engineVars == <<mem, up, files, cur, lo, unflushed, pc, ret, preMem>>
vars == <<engineVars, codec>>

Min(S) == CHOOSE x \in S : \A y \in S : x <= y
Max(S) == CHOOSE x \in S : \A y \in S : x >= y

(***************************************************************************)
(* Records of the log (MultiPlexedRecord).                                 *)
(***************************************************************************)
NoPayload == ""

AppendRecord(queue, position, payload) ==
    [type |-> "AppendRecord", queue |-> queue, position |-> position,
     payload |-> payload]
Truncate(queue, position) ==
    [type |-> "Truncate", queue |-> queue, position |-> position,
     payload |-> NoPayload]
Touch(queue, position) ==
    [type |-> "Touch", queue |-> queue, position |-> position,
     payload |-> NoPayload]
DeleteQueue(queue, position) ==
    [type |-> "DeleteQueue", queue |-> queue, position |-> position,
     payload |-> NoPayload]

(***************************************************************************)
(* The record codec (src/src/record.rs).  A buffer is a sequence of bytes. *)
(* A MultiPlexedRecord is [kind, queue, position, records]; its records, a *)
(* MultiRecord, is [buffer, byte_offset].                                  *)
(***************************************************************************)
MaxItems == 2       \* items of a multi-payload blob
MaxNext == 1        \* calls of next() on a record's iterator before use

\* Rust's slice[from..to], 0-based and half-open, when it does not panic.
Slice(buffer, from, to) == SubSeq(buffer, from + 1, to)
SliceFrom(buffer, from) == SubSeq(buffer, from + 1, Len(buffer))

\* to_le_bytes and from_le_bytes of an unsigned integer of n bytes.
RECURSIVE ToLeBytes(_, _)
ToLeBytes(x, n) ==
    IF n = 0 THEN <<>> ELSE <<x % 256>> \o ToLeBytes(x \div 256, n - 1)

RECURSIVE FromLeBytes(_)
FromLeBytes(bytes) ==
    IF bytes = <<>> THEN 0 ELSE bytes[1] + 256 * FromLeBytes(Tail(bytes))

\* std::str::from_utf8(bytes).is_ok(), for code points below U+0800.
RECURSIVE IsUtf8(_)
IsUtf8(bytes) ==
    IF bytes = <<>> THEN TRUE
    ELSE IF bytes[1] < 128 THEN IsUtf8(Tail(bytes))
    ELSE IF bytes[1] >= 194 /\ bytes[1] <= 223 /\ Len(bytes) >= 2
            /\ bytes[2] >= 128 /\ bytes[2] <= 191
    THEN IsUtf8(Tail(Tail(bytes)))
    ELSE FALSE

\* enum RecordType, as u8.
RecordTypeCode(kind) ==
    CASE kind = "Truncate" -> 1
      [] kind = "RecordPosition" -> 2
      [] kind = "DeleteQueue" -> 3
      [] kind = "AppendRecords" -> 4

RecordTypeTryFrom_TouchAsDelete(code) ==
    CASE code = 1 -> "Truncate"
      [] code = 2 -> "DeleteQueue"
      [] code = 3 -> "DeleteQueue"
      [] code = 4 -> "AppendRecords"
      [] OTHER -> "Err"

\* RecordType::try_from(code), with the variant Touch read as the record
\* RecordPosition it stands for.
RecordTypeTryFrom(code) ==
    CASE code = 1 -> "Truncate"
      [] code = 2 -> "RecordPosition"
      [] code = 3 -> "DeleteQueue"
      [] code = 4 -> "AppendRecords"
      [] OTHER -> "Err"

NewUnchecked(buffer) == [buffer |-> buffer, byte_offset |-> 0]
ResetPosition(mrecord) == [mrecord EXCEPT !.byte_offset = 0]

\* The records field of the three kinds that carry no multi-payload.
NoRecords == NewUnchecked(<<>>)

\* MultiRecord::serialize_with_pos: items is a sequence of
\* [position, payload].
RECURSIVE SerializeWithPos(_)
SerializeWithPos(items) ==
    IF items = <<>> THEN <<>>
    ELSE ToLeBytes(items[1].position, 8)
         \o ToLeBytes(Len(items[1].payload), 4)
         \o items[1].payload
         \o SerializeWithPos(Tail(items))

\* MultiRecord::serialize: the payloads take the positions position,
\* position + 1, ...
MultiRecordSerialize(payloads, position) ==
    SerializeWithPos([i \in 1..Len(payloads) |->
                        [position |-> position + i - 1,
                         payload |-> payloads[i]]])

ItemTooShort_NoLength(buffer) == Len(buffer) < 8

\* The guard of Iterator::next that protects the reads of the item header.
ItemTooShort(buffer) == Len(buffer) < 12

\* Iterator::next of MultiRecord: [item, position, payload, mrecord], item
\* being "None", "Ok", "Err", or "Panic" when a slice is out of range.
MultiRecordNext(mrecord) ==
    LET stop(item, mr) ==
            [item |-> item, position |-> 0, payload |-> <<>>, mrecord |-> mr]
    IN IF mrecord.byte_offset = Len(mrecord.buffer)
       THEN stop("None", mrecord)
       ELSE IF mrecord.byte_offset > Len(mrecord.buffer)
       THEN stop("Panic", mrecord)
       ELSE LET buffer == SliceFrom(mrecord.buffer, mrecord.byte_offset)
            IN IF ItemTooShort(buffer)
               THEN stop("Err", [mrecord EXCEPT !.byte_offset = Len(buffer)])
               ELSE IF Len(buffer) < 12
               THEN stop("Panic", mrecord)
               ELSE LET position == FromLeBytes(Slice(buffer, 0, 8))
                        len == FromLeBytes(Slice(buffer, 8, 12))
                        rest == SliceFrom(buffer, 12)
                    IN IF Len(rest) < len
                       THEN stop("Err",
                                 [mrecord EXCEPT !.byte_offset = Len(rest)])
                       ELSE [item |-> "Ok", position |-> position,
                             payload |-> Slice(rest, 0, len),
                             mrecord |-> [mrecord EXCEPT
                                            !.byte_offset = @ + 12 + len]]

\* The loop of MultiRecord::new over a copy of the record: the first item
\* that is not Ok ends it.
RECURSIVE MultiRecordVerify(_)
MultiRecordVerify(mrecord) ==
    LET n == MultiRecordNext(mrecord)
    IN IF n.item = "Ok" THEN MultiRecordVerify(n.mrecord)
       ELSE IF n.item = "None" THEN "Ok"
       ELSE n.item

\* MultiRecord::new(buffer): [res, records], res being "Ok", "Err", "Panic".
MultiRecordNew(buffer) ==
    LET mrecord == NewUnchecked(buffer)
        res == MultiRecordVerify(mrecord)
    IN [res |-> res,
        records |-> IF res = "Ok" THEN ResetPosition(mrecord) ELSE NoRecords]

\* fn serialize(record_type, position, queue, payload, buffer)
SerializeFrame(kind, position, queue, payload) ==
    <<RecordTypeCode(kind)>> \o ToLeBytes(position, 8)
    \o ToLeBytes(Len(queue), 2) \o queue \o payload

\* MultiPlexedRecord::serialize
Serialize(record) ==
    IF record.kind = "AppendRecords"
    THEN SerializeFrame(record.kind, record.position, record.queue,
                        record.records.buffer)
    ELSE SerializeFrame(record.kind, record.position, record.queue, <<>>)

CodecNone == [tag |-> "None", record |-> [kind |-> "", queue |-> <<>>,
                                          position |-> 0,
                                          records |-> NoRecords]]
CodecPanic == [CodecNone EXCEPT !.tag = "Panic"]
CodecSome(record) == [tag |-> "Some", record |-> record]

\* MultiPlexedRecord::deserialize
Deserialize(buffer) ==
    IF Len(buffer) < 11 THEN CodecNone
    ELSE LET enum_tag == RecordTypeTryFrom(buffer[1])
             position == FromLeBytes(Slice(buffer, 1, 9))
             queue_len == FromLeBytes(Slice(buffer, 9, 11))
             remaining == SliceFrom(buffer, 11)
         IN IF enum_tag = "Err" THEN CodecNone
            ELSE IF Len(remaining) < queue_len THEN CodecNone
            ELSE LET queue == Slice(remaining, 0, queue_len)
                     payload == SliceFrom(remaining, queue_len)
                 IN IF ~IsUtf8(queue) THEN CodecNone
                    ELSE IF enum_tag = "AppendRecords"
                    THEN LET r == MultiRecordNew(payload)
                         IN IF r.res = "Panic" THEN CodecPanic
                            ELSE IF r.res = "Err" THEN CodecNone
                            ELSE CodecSome([kind |-> enum_tag,
                                            queue |-> queue,
                                            position |-> position,
                                            records |-> r.records])
                    ELSE CodecSome([kind |-> enum_tag, queue |-> queue,
                                    position |-> position,
                                    records |-> NoRecords])

\* The codec at rest.
CodecIdle ==
    [mode |-> "idle", step |-> "", record |-> CodecNone.record,
     payloads |-> <<>>, start |-> 0, nexts |-> 0, buffer |-> <<>>,
     full |-> 0, out |-> CodecNone,
     blob |-> [res |-> "", records |-> NoRecords]]

(***************************************************************************)
(* MemQueues: the in-memory index (specification, section 4.2).            *)
(* A MemQueue is [np, frp, recs, ffn]: next_position,                      *)
(* first_retained_position, position -> [file, payload], and               *)
(* first_file_number.                                                      *)
(***************************************************************************)
EmptyMem == [q \in {} |-> 0]
EmptyRecs == [p \in {} |-> 0]

MemPut(m, q, queue) ==
    [x \in DOMAIN m \cup {q} |-> IF x = q THEN queue ELSE m[x]]
MemDrop(m, q) == [x \in DOMAIN m \ {q} |-> m[x]]

ContainsQueue(m, q) == q \in DOMAIN m
IsEmptyQueue(queue) == DOMAIN queue.recs = {}

NewQueue(position, file) ==
    [np |-> position, frp |-> position, recs |-> EmptyRecs, ffn |-> file]

\* create_queue(name): AlreadyExists if present, else an empty queue at 0.
MemCreateQueue(m, q, file) ==
    IF ContainsQueue(m, q)
    THEN [ok |-> FALSE, mem |-> m]
    ELSE [ok |-> TRUE, mem |-> MemPut(m, q, NewQueue(0, file))]

\* delete_queue(name): MissingQueue if absent, else removes all state.
MemDeleteQueue(m, q) ==
    IF ContainsQueue(m, q)
    THEN [ok |-> TRUE, mem |-> MemDrop(m, q)]
    ELSE [ok |-> FALSE, mem |-> m]

\* append_record(name, file_number, position, payload).
MemAppendRecord(m, q, file, position, payload) ==
    IF ~ContainsQueue(m, q) THEN [ok |-> FALSE, mem |-> m]
    ELSE IF position # m[q].np THEN [ok |-> FALSE, mem |-> m]
    ELSE LET queue == m[q]
             recs == [p \in DOMAIN queue.recs \cup {position} |->
                        IF p = position
                        THEN [file |-> file, payload |-> payload]
                        ELSE queue.recs[p]]
         IN [ok |-> TRUE,
             mem |-> MemPut(m, q,
                       [np |-> position + 1,
                        frp |-> queue.frp,
                        recs |-> recs,
                        ffn |-> IF IsEmptyQueue(queue) THEN file
                                                       ELSE queue.ffn])]

\* MemQueue::touch(file_number, position) on a queue handle.
QueueTouch(queue, file, position) ==
    IF IsEmptyQueue(queue)
    THEN [ok |-> TRUE,
          queue |-> [np |-> position, frp |-> position,
                     recs |-> EmptyRecs, ffn |-> file]]
    ELSE IF position = queue.np
    THEN [ok |-> TRUE, queue |-> queue]
    ELSE [ok |-> FALSE, queue |-> queue]

\* touch(name, position, file_number).
MemTouch(m, q, position, file) ==
    IF ~ContainsQueue(m, q)
    THEN [ok |-> TRUE, mem |-> MemPut(m, q, NewQueue(position, file))]
    ELSE LET r == QueueTouch(m[q], file, position)
         IN [ok |-> r.ok, mem |-> IF r.ok THEN MemPut(m, q, r.queue) ELSE m]

MemTruncate_KeepBoundary(m, q, position) ==
    IF ~ContainsQueue(m, q) THEN m
    ELSE LET queue == m[q]
             keep == {p \in DOMAIN queue.recs : p >= position}
         IN MemPut(m, q, [queue EXCEPT
                            !.recs = [p \in keep |-> queue.recs[p]],
                            !.frp = Max({queue.frp, position + 1})])

\* truncate(name, position): silent on an absent queue.
MemTruncate(m, q, position) ==
    IF ~ContainsQueue(m, q) THEN m
    ELSE LET queue == m[q]
         IN IF position >= queue.np - 1
            THEN MemPut(m, q, [queue EXCEPT !.recs = EmptyRecs,
                                            !.frp = queue.np])
            ELSE LET keep == {p \in DOMAIN queue.recs : p > position}
                     recs == [p \in keep |-> queue.recs[p]]
                 IN MemPut(m, q,
                      [np |-> queue.np,
                       frp |-> Max({queue.frp, position + 1}),
                       recs |-> recs,
                       ffn |-> IF keep = {} THEN queue.ffn
                               ELSE recs[Min(keep)].file])

\* empty_queue_positions(): the queues currently empty.
EmptyQueuePositions(m) == {q \in DOMAIN m : IsEmptyQueue(m[q])}

RECURSIVE RangeSeq(_, _, _)
RangeSeq(recs, a, b) ==
    IF a >= b THEN <<>>
    ELSE (IF a \in DOMAIN recs THEN << <<a, recs[a].payload>> >> ELSE <<>>)
         \o RangeSeq(recs, a + 1, b)

\* range(name, a..b): the live records with a <= position < b, in order.
MemRange(m, q, a, b) ==
    IF ~ContainsQueue(m, q) THEN [some |-> FALSE, items |-> <<>>]
    ELSE [some |-> TRUE, items |-> RangeSeq(m[q].recs, a, b)]

(***************************************************************************)
(* The rolling writer and reader (specification, section 4.4).             *)
(***************************************************************************)
\* write_record: the frame lands in the current file; the writer rolls to a
\* new file when the file is full, so that current_file() is always the
\* file the next frame lands in.
WriteFiles(fs, c, frame) ==
    LET fs1 == [fs EXCEPT ![c] = Append(@, frame)]
    IN IF Len(fs1[c]) >= FileCap
       THEN [f \in 0..(c + 1) |-> IF f = c + 1 THEN <<>> ELSE fs1[f]]
       ELSE fs1
WriteCur(fs, c) == IF Len(fs[c]) + 1 >= FileCap THEN c + 1 ELSE c

\* gc(): deletes every file below the smallest first_file_number of the
\* queues, all files below the current one when there is no queue.
GcThreshold(m, c) ==
    IF DOMAIN m = {} THEN c
    ELSE Min({m[q].ffn : q \in DOMAIN m} \cup {c})

GcFiles(fs, threshold) ==
    [f \in DOMAIN fs |-> IF f < threshold THEN <<>> ELSE fs[f]]

\* The frames of files f..hi in reading order, each with the file number
\* the reader reports before it reads the frame.
RECURSIVE FramesOf(_, _, _)
FramesOf(fs, f, hi) ==
    IF f > hi THEN <<>>
    ELSE [i \in 1..Len(fs[f]) |-> [file |-> f, frame |-> fs[f][i]]]
         \o FramesOf(fs, f + 1, hi)

\* A crash loses the last k frames of the log (frames not yet flushed).
RECURSIVE TornTail(_, _, _)
TornTail(fs, hi, k) ==
    IF k = 0 \/ hi < 0 THEN fs
    ELSE IF Len(fs[hi]) = 0 THEN TornTail(fs, hi - 1, k)
    ELSE TornTail([fs EXCEPT ![hi] = SubSeq(@, 1, Len(@) - 1)], hi, k - 1)

(***************************************************************************)
(* MultiRecordLog::open: replay of the retained files.                     *)
(***************************************************************************)
ApplyRecord(st, file, record) ==
    IF ~st.ok THEN st
    ELSE CASE record.type = "AppendRecord" ->
                MemAppendRecord(st.mem, record.queue, file, record.position,
                                record.payload)
           [] record.type = "Truncate" ->
                [ok |-> TRUE,
                 mem |-> MemTruncate(st.mem, record.queue, record.position)]
           [] record.type = "Touch" ->
                MemTouch(st.mem, record.queue, record.position, file)
           [] record.type = "DeleteQueue" ->
                MemDeleteQueue(st.mem, record.queue)

RECURSIVE ReplayFrom(_, _)
ReplayFrom(st, frames) ==
    IF frames = <<>> THEN st
    ELSE ReplayFrom(ApplyRecord(st, frames[1].file, frames[1].frame),
                    Tail(frames))

Open(fs, first, last) ==
    ReplayFrom([ok |-> TRUE, mem |-> EmptyMem], FramesOf(fs, first, last))

(***************************************************************************)
(* The engine: state after MultiRecordLog::open on an empty directory.     *)
(***************************************************************************)
Idle ==
    [op |-> "idle", step |-> "", q |-> "", arg |-> NoPos, pos |-> NoPos,
     payload |-> NoPayload, file |-> NoPos, np |-> NoPos, todo |-> {}]

Returned(op, q, arg, np, res, val) ==
    [op |-> op, q |-> q, arg |-> arg, np |-> np, res |-> res, val |-> val]

\* No value returned yet: a handler is running.
Running == Returned("", "", NoPos, NoPos, "", NoPos)

EngineInit ==
    /\ mem = EmptyMem
    /\ up = TRUE
    /\ files = [f \in {0} |-> <<>>]
    /\ cur = 0
    /\ lo = 0
    /\ unflushed = 0
    /\ pc = Idle
    /\ ret = Running
    /\ preMem = [valid |-> FALSE, mem |-> EmptyMem]

Init == EngineInit /\ codec = CodecIdle

\* record_log_writer.write_record(record)
WriteRecord(record) ==
    /\ files' = WriteFiles(files, cur, record)
    /\ cur' = WriteCur(files, cur)
    /\ unflushed' = unflushed + 1

\* record_log_writer.flush()
Flush == unflushed' = 0

\* The frames before the writer's position: the files fill in turn.
FramesWritten == cur * FileCap + Len(files[cur])

\* The handlers take &mut self: a call starts once the previous call has
\* returned and its result has been taken.
CanStart(need) ==
    /\ up
    /\ pc.op = "idle"
    /\ ret = Running
    /\ FramesWritten + need <= MaxFrames

NextPosition(m, q) == IF ContainsQueue(m, q) THEN m[q].np ELSE NoPos

(***************************************************************************)
(* create_queue                                                            *)
(***************************************************************************)
CreateWrite(q) ==
    /\ CanStart(1)
    /\ WriteRecord(Touch(q, 0))
    /\ pc' = [Idle EXCEPT !.op = "create", !.step = "flush", !.q = q,
                          !.file = cur, !.np = NextPosition(mem, q)]
    /\ preMem' = [valid |-> TRUE, mem |-> mem]
    /\ ret' = Running
    /\ UNCHANGED <<mem, up, lo, codec>>

CreateFlush ==
    /\ pc.op = "create" /\ pc.step = "flush"
    /\ Flush
    /\ pc' = [pc EXCEPT !.step = "apply"]
    /\ UNCHANGED <<mem, up, files, cur, lo, ret, preMem, codec>>

CreateApply ==
    /\ pc.op = "create" /\ pc.step = "apply"
    /\ LET r == MemCreateQueue(mem, pc.q, pc.file)
       IN /\ mem' = r.mem
          /\ ret' = Returned("create", pc.q, NoPos, pc.np,
                             IF r.ok THEN "Ok" ELSE "AlreadyExists", NoPos)
    /\ pc' = Idle
    /\ UNCHANGED <<up, files, cur, lo, unflushed, preMem, codec>>

(***************************************************************************)
(* delete_queue                                                            *)
(***************************************************************************)
DeleteMissing(q) ==
    /\ CanStart(0)
    /\ ~ContainsQueue(mem, q)
    /\ ret' = Returned("delete", q, NoPos, NoPos, "MissingQueue", NoPos)
    /\ UNCHANGED <<mem, up, files, cur, lo, unflushed, pc, preMem, codec>>

DeleteWrite(q) ==
    /\ CanStart(1)
    /\ ContainsQueue(mem, q)
    /\ WriteRecord(DeleteQueue(q, mem[q].np))
    /\ pc' = [Idle EXCEPT !.op = "delete", !.step = "flush", !.q = q,
                          !.np = mem[q].np]
    /\ preMem' = [valid |-> TRUE, mem |-> mem]
    /\ ret' = Running
    /\ UNCHANGED <<mem, up, lo, codec>>

DeleteFlush ==
    /\ pc.op = "delete" /\ pc.step = "flush"
    /\ Flush
    /\ pc' = [pc EXCEPT !.step = "apply"]
    /\ UNCHANGED <<mem, up, files, cur, lo, ret, preMem, codec>>

DeleteApply ==
    /\ pc.op = "delete" /\ pc.step = "apply"
    /\ LET r == MemDeleteQueue(mem, pc.q)
       IN /\ mem' = r.mem
          /\ ret' = Returned("delete", pc.q, NoPos, pc.np,
                             IF r.ok THEN "Ok" ELSE "MissingQueue", NoPos)
    /\ pc' = Idle
    /\ UNCHANGED <<up, files, cur, lo, unflushed, preMem, codec>>

(***************************************************************************)
(* append_record                                                           *)
(***************************************************************************)
AppendCheck_OffByOne(posopt, np) ==
    IF posopt = NoPos THEN "Go"
    ELSE IF posopt > np THEN "Future"
    ELSE IF posopt = np THEN "None"
    ELSE IF posopt < np THEN "Past"
    ELSE "Go"

\* The outcome of the position check: "Go" when the append proceeds.
AppendCheck(posopt, np) ==
    IF posopt = NoPos THEN "Go"
    ELSE IF posopt > np THEN "Future"
    ELSE IF posopt + 1 = np THEN "None"
    ELSE IF posopt < np THEN "Past"
    ELSE "Go"

AppendFileNumber_AfterWrite(before, after) == after

\* The file number handed to the index: current_file() read before the
\* frame is written (before), not after it (after).
AppendFileNumber(before, after) == before

AppendWriteMem_IndexFirst(m, q, file, position, payload) ==
    MemAppendRecord(m, q, file, position, payload).mem

\* in_mem_queues while the frame is written and flushed: untouched.
AppendWriteMem(m, q, file, position, payload) == m

\* The queue is absent: next_position(queue)? returns before position_opt
\* and payload are looked at.
AppendMissing(q) ==
    /\ CanStart(0)
    /\ ~ContainsQueue(mem, q)
    /\ ret' = Returned("append", q, NoPos, NoPos, "MissingQueue", NoPos)
    /\ UNCHANGED <<mem, up, files, cur, lo, unflushed, pc, preMem, codec>>

AppendReject(q, posopt) ==
    /\ CanStart(0)
    /\ ContainsQueue(mem, q)
    /\ AppendCheck(posopt, mem[q].np) # "Go"
    /\ ret' = Returned("append", q, posopt, mem[q].np,
                       AppendCheck(posopt, mem[q].np), NoPos)
    /\ UNCHANGED <<mem, up, files, cur, lo, unflushed, pc, preMem, codec>>

AppendWrite(q, posopt, payload) ==
    /\ CanStart(1)
    /\ ContainsQueue(mem, q)
    /\ AppendCheck(posopt, mem[q].np) = "Go"
    /\ LET position == IF posopt = NoPos THEN mem[q].np ELSE posopt
           file == AppendFileNumber(cur, WriteCur(files, cur))
       IN /\ WriteRecord(AppendRecord(q, position, payload))
          /\ mem' = AppendWriteMem(mem, q, file, position, payload)
          /\ pc' = [Idle EXCEPT !.op = "append", !.step = "flush", !.q = q,
                                !.arg = posopt, !.pos = position,
                                !.payload = payload, !.file = file,
                                !.np = mem[q].np]
    /\ preMem' = [valid |-> TRUE, mem |-> mem]
    /\ ret' = Running
    /\ UNCHANGED <<up, lo, codec>>

AppendFlush ==
    /\ pc.op = "append" /\ pc.step = "flush"
    /\ Flush
    /\ pc' = [pc EXCEPT !.step = "apply"]
    /\ UNCHANGED <<mem, up, files, cur, lo, ret, preMem, codec>>

AppendApply ==
    /\ pc.op = "append" /\ pc.step = "apply"
    /\ LET r == MemAppendRecord(mem, pc.q, pc.file, pc.pos, pc.payload)
       IN /\ mem' = r.mem
          /\ ret' = Returned("append", pc.q, pc.arg, pc.np,
                             IF r.ok THEN "Ok" ELSE "Error",
                             IF r.ok THEN pc.pos ELSE NoPos)
    /\ pc' = Idle
    /\ UNCHANGED <<up, files, cur, lo, unflushed, preMem, codec>>

(***************************************************************************)
(* truncate and touch_empty_queues                                         *)
(***************************************************************************)
TruncateIsFuture_Inclusive(position, np) == position > np

\* The guard of truncate: the position is not below next_position.
TruncateIsFuture(position, np) == position >= np

\* The queue is absent: next_position(queue)? returns before position is
\* looked at.
TruncateMissing(q) ==
    /\ CanStart(0)
    /\ ~ContainsQueue(mem, q)
    /\ ret' = Returned("truncate", q, NoPos, NoPos, "MissingQueue", NoPos)
    /\ UNCHANGED <<mem, up, files, cur, lo, unflushed, pc, preMem, codec>>

TruncateFutureMem_TruncateFirst(m, q, position) == MemTruncate(m, q, position)

\* in_mem_queues when truncate returns Future: untouched, the guard comes
\* before the in-memory truncate.
TruncateFutureMem(m, q, position) == m

TruncateFuture(q, position) ==
    /\ CanStart(0)
    /\ ContainsQueue(mem, q)
    /\ TruncateIsFuture(position, mem[q].np)
    /\ mem' = TruncateFutureMem(mem, q, position)
    /\ ret' = Returned("truncate", q, position, mem[q].np, "Future", NoPos)
    /\ UNCHANGED <<up, files, cur, lo, unflushed, pc, preMem, codec>>

\* The in-memory truncate, then the Truncate frame.
TruncateWrite(q, position) ==
    /\ ContainsQueue(mem, q)
    /\ ~TruncateIsFuture(position, mem[q].np)
    /\ LET m1 == MemTruncate(mem, q, position)
       IN /\ CanStart(1)
          /\ mem' = m1
          /\ WriteRecord(Truncate(q, position))
          /\ pc' = [Idle EXCEPT !.op = "truncate", !.step = "touch", !.q = q,
                                !.arg = position, !.pos = position,
                                !.np = mem[q].np,
                                !.todo = EmptyQueuePositions(m1)]
    /\ preMem' = [valid |-> TRUE, mem |-> mem]
    /\ ret' = Running
    /\ UNCHANGED <<up, lo, codec>>

TouchFileNumber_AfterWrite(before, after) == after

\* The file number handed to queue.touch: current_file() read before the
\* RecordPosition frame is written (before), not after it (after).
TouchFileNumber(before, after) == before

\* One iteration of the loop of touch_empty_queues.
TouchEmptyQueue(q) ==
    /\ pc.op = "truncate" /\ pc.step = "touch"
    /\ q \in pc.todo
    /\ LET next_position == mem[q].np
           file_number == TouchFileNumber(cur, WriteCur(files, cur))
           r == QueueTouch(mem[q], file_number, next_position)
       IN /\ WriteRecord(Touch(q, next_position))
          /\ mem' = IF r.ok THEN MemPut(mem, q, r.queue) ELSE mem
    /\ pc' = [pc EXCEPT !.todo = @ \ {q}]
    /\ preMem' = [valid |-> TRUE, mem |-> mem]
    /\ UNCHANGED <<up, lo, ret, codec>>

TruncateFlush ==
    /\ pc.op = "truncate" /\ pc.step = "touch"
    /\ pc.todo = {}
    /\ Flush
    /\ pc' = [pc EXCEPT !.step = "gc"]
    /\ UNCHANGED <<mem, up, files, cur, lo, ret, preMem, codec>>

TruncateGcRequest_Skipped(m, c) == 0

\* record_log_writer.gc(), the last step of truncate: the threshold below
\* which the writer deletes.
TruncateGcRequest(m, c) == GcThreshold(m, c)

TruncateCanGc_BeforeFlush(p) == p.step \in {"touch", "gc"} /\ p.todo = {}

\* gc() is called once flush() has returned.
TruncateCanGc(p) == p.step = "gc"

TruncateGc ==
    /\ pc.op = "truncate" /\ TruncateCanGc(pc)
    /\ LET threshold == Max({lo, TruncateGcRequest(mem, cur)})
       IN /\ lo' = threshold
          /\ files' = GcFiles(files, threshold)
    /\ ret' = Returned("truncate", pc.q, pc.arg, pc.np, "Ok", NoPos)
    /\ pc' = Idle
    /\ UNCHANGED <<mem, up, cur, unflushed, preMem, codec>>

(***************************************************************************)
(* range                                                                   *)
(***************************************************************************)
EngineRange_InclusiveEnd(m, q, a, b) == MemRange(m, q, a, b + 1)

\* range(queue, a..b): a pass-through to the index.
EngineRange(m, q, a, b) == MemRange(m, q, a, b)

(***************************************************************************)
(* Reopening the directory, after a clean stop or after a crash.           *)
(***************************************************************************)
Recover(k) ==
    LET fs == TornTail(files, cur, k)
        r == Open(fs, lo, cur)
    IN /\ files' = fs
       /\ up' = r.ok
       /\ mem' = IF r.ok THEN r.mem ELSE EmptyMem
       /\ ret' = Returned("open", "", NoPos, NoPos,
                          IF r.ok THEN "Ok" ELSE "Corruption", NoPos)
       /\ unflushed' = 0
       /\ pc' = Idle
       /\ preMem' = IF k = 0 THEN preMem ELSE [valid |-> FALSE, mem |-> EmptyMem]

\* The engine is dropped between two operations and the directory reopened.
Reopen ==
    /\ up
    /\ pc.op = "idle"
    /\ ret = Running
    /\ Recover(0)
    /\ UNCHANGED <<cur, lo, codec>>

\* The process crashes inside an operation; the k last frames, not yet
\* flushed, are lost; the directory is then reopened.
Crash(k) ==
    /\ up
    /\ pc.op # "idle"
    /\ k \in 0..unflushed
    /\ Recover(k)
    /\ UNCHANGED <<cur, lo, codec>>

\* The caller takes the value a handler returned.
Return ==
    /\ up
    /\ pc.op = "idle"
    /\ ret # Running
    /\ ret' = Running
    /\ UNCHANGED <<mem, up, files, cur, lo, unflushed, pc, preMem, codec>>

\* The steps of the handlers, the caller taking a result, and a clean reopen.
NextOps ==
    \/ \E q \in Queues : CreateWrite(q)
    \/ CreateFlush
    \/ CreateApply
    \/ \E q \in Queues : DeleteMissing(q)
    \/ \E q \in Queues : DeleteWrite(q)
    \/ DeleteFlush
    \/ DeleteApply
    \/ \E q \in Queues : AppendMissing(q)
    \/ \E q \in Queues, posopt \in ArgPositions \cup {NoPos} :
          \/ AppendReject(q, posopt)
          \/ \E payload \in Payloads : AppendWrite(q, posopt, payload)
    \/ AppendFlush
    \/ AppendApply
    \/ \E q \in Queues : TruncateMissing(q)
    \/ \E q \in Queues, position \in ArgPositions :
          \/ TruncateFuture(q, position)
          \/ TruncateWrite(q, position)
    \/ \E q \in Queues : TouchEmptyQueue(q)
    \/ TruncateFlush
    \/ TruncateGc
    \/ Return
    \/ Reopen

Next ==
    \/ NextOps
    \/ \E k \in 0..MaxFrames : Crash(k)

\* Every behaviour of the engine, crashes included.
Spec == Init /\ [][Next]_vars

\* The behaviours without a crash: operations and clean reopens only.
OpsSpec == Init /\ [][NextOps]_vars

(***************************************************************************)
(* The codec at work: a record or a multi-payload is built, serialized,    *)
(* possibly cut short as a torn write would, and read back.                *)
(***************************************************************************)
CodecQueueNames == {<<>>, <<113>>, <<195, 169>>}
CodecPositions == {0, 1, 300}
CodecPayloads == {<<>>, <<7>>}

CodecPayloadSeqs ==
    UNION {[1..n -> CodecPayloads] : n \in 0..MaxItems}

CodecStart(mode, record, payloads, start) ==
    [CodecIdle EXCEPT !.mode = mode, !.step = "new", !.record = record,
                      !.payloads = payloads, !.start = start]

\* The inputs: a record of one of the four kinds, the multi-payload of an
\* AppendRecords starting at a position of its own, or a multi-payload alone.
CodecInputs ==
    {CodecStart("frame",
                [kind |-> kind, queue |-> queue, position |-> position,
                 records |-> NoRecords], <<>>, 0) :
       kind \in {"Truncate", "RecordPosition", "DeleteQueue"},
       queue \in CodecQueueNames, position \in CodecPositions}
    \cup
    {CodecStart("frame",
                [kind |-> "AppendRecords", queue |-> x[1], position |-> x[2],
                 records |-> NewUnchecked(MultiRecordSerialize(x[3], x[4]))],
                x[3], x[4]) :
       x \in CodecQueueNames \X CodecPositions \X CodecPayloadSeqs
             \X CodecPositions}
    \cup
    {CodecStart("blob", CodecIdle.record, payloads, start) :
       payloads \in CodecPayloadSeqs, start \in CodecPositions}

CodecInit == EngineInit /\ codec \in CodecInputs

\* The holder of an AppendRecords record calls next() on its records.
CodecNextItem ==
    /\ codec.mode = "frame" /\ codec.step = "new"
    /\ codec.record.kind = "AppendRecords"
    /\ codec.nexts < MaxNext
    /\ LET n == MultiRecordNext(codec.record.records)
       IN /\ n.item = "Ok"
          /\ codec' = [codec EXCEPT !.record.records = n.mrecord,
                                    !.nexts = @ + 1]
    /\ UNCHANGED engineVars

\* record.serialize(&mut buffer)
CodecSerialize ==
    /\ codec.mode = "frame" /\ codec.step = "new"
    /\ codec' = [codec EXCEPT !.step = "serialized",
                              !.buffer = Serialize(codec.record),
                              !.full = Len(Serialize(codec.record))]
    /\ UNCHANGED engineVars

\* MultiRecord::serialize(payloads, position, &mut buffer)
CodecSerializeBlob ==
    /\ codec.mode = "blob" /\ codec.step = "new"
    /\ LET buffer == MultiRecordSerialize(codec.payloads, codec.start)
       IN codec' = [codec EXCEPT !.step = "serialized", !.buffer = buffer,
                                 !.full = Len(buffer)]
    /\ UNCHANGED engineVars

\* &buffer[..buffer.len() - num_truncated_bytes]
CodecTruncate(num_truncated_bytes) ==
    /\ codec.step = "serialized"
    /\ num_truncated_bytes \in 1..Len(codec.buffer)
    /\ codec' = [codec EXCEPT
                   !.step = "cut",
                   !.buffer = Slice(codec.buffer, 0,
                                    Len(codec.buffer) - num_truncated_bytes)]
    /\ UNCHANGED engineVars

\* MultiPlexedRecord::deserialize(&buffer)
CodecDeserialize ==
    /\ codec.mode = "frame" /\ codec.step \in {"serialized", "cut"}
    /\ codec' = [codec EXCEPT !.step = "done",
                              !.out = Deserialize(codec.buffer)]
    /\ UNCHANGED engineVars

\* MultiRecord::new(&buffer)
CodecNew ==
    /\ codec.mode = "blob" /\ codec.step \in {"serialized", "cut"}
    /\ codec' = [codec EXCEPT !.step = "done",
                              !.blob = MultiRecordNew(codec.buffer)]
    /\ UNCHANGED engineVars

MaxFrameLen == 11 + 2 + MaxItems * (12 + 1)

CodecNext ==
    \/ CodecNextItem
    \/ CodecSerialize
    \/ CodecSerializeBlob
    \/ \E n \in 1..MaxFrameLen : CodecTruncate(n)
    \/ CodecDeserialize
    \/ CodecNew

\* The behaviours of the codec on its inputs.
CodecSpec == CodecInit /\ [][CodecNext]_vars

(***************************************************************************)
(* Properties.                                                             *)
(***************************************************************************)
\* What open() yields on the directory as it is now.
Recovered == Open(files, lo, cur)

\* The retained frames, and those of them that a flush has made durable.
RetainedFrames == FramesOf(files, lo, cur)
FlushedFrames == SubSeq(RetainedFrames, 1, Len(RetainedFrames) - unflushed)

LivePositions(queue) ==
    {p \in DOMAIN queue.recs : queue.frp <= p /\ p < queue.np}

\* C1 -- Recovery equivalence: between two operations, after any sequence
\* of successful or rejected operations, open() on the directory succeeds
\* and yields exactly the in-memory state of the running engine (queues,
\* next_position, first_retained_position, records, first_file_number).
RecoveryEquivalence ==
    (up /\ pc.op = "idle") => (Recovered.ok /\ Recovered.mem = mem)

\* C2 -- Append durability ordering: in every state, crash points inside
\* append_record included, each record of the in-memory index, and each
\* position an append has returned, is the content of an AppendRecord frame
\* that was written to its file and flushed.
AppendDurableBeforeIndexed ==
    up =>
      LET flushed == FlushedFrames
      IN /\ \A q \in DOMAIN mem : \A p \in DOMAIN mem[q].recs :
              \E i \in 1..Len(flushed) :
                /\ flushed[i].frame =
                     AppendRecord(q, p, mem[q].recs[p].payload)
                /\ flushed[i].file = mem[q].recs[p].file
         /\ (ret.op = "append" /\ ret.res = "Ok") =>
              \E i \in 1..Len(flushed) :
                /\ flushed[i].frame.type = "AppendRecord"
                /\ flushed[i].frame.queue = ret.q
                /\ flushed[i].frame.position = ret.val

\* An append has written its frame, not yet flushed, while the index of the
\* queue already holds an earlier record.
AppendInFlightWitness ==
    /\ pc.op = "append" /\ pc.step = "flush" /\ unflushed = 1
    /\ DOMAIN mem[pc.q].recs # {}

\* C3 -- GC safety: whatever truncates have run, no file hosting a live
\* record of an existing queue is deleted: the AppendRecord frame of every
\* live record is in a retained file.
GcSafety ==
    up =>
      \A q \in DOMAIN mem : \A p \in LivePositions(mem[q]) :
        \E f \in lo..cur : \E i \in 1..Len(files[f]) :
          files[f][i] = AppendRecord(q, p, mem[q].recs[p].payload)

\* A truncate has returned, its gc has deleted files, and a queue still has
\* a live record.
GcSafetyWitness ==
    /\ ret.op = "truncate" /\ ret.res = "Ok"
    /\ lo > 0
    /\ \E q \in DOMAIN mem : LivePositions(mem[q]) # {}

\* C4 -- Outcome of a positioned append on an existing queue whose
\* next_position is np at call time: Some(p) yields Ok(None) iff p + 1 = np,
\* Future iff p > np, Past iff p + 1 < np, Ok(Some(p)) iff p = np; None
\* yields Ok(Some(np)).
AppendOutcome ==
    (ret.op = "append" /\ ret.np # NoPos) =>
      IF ret.arg = NoPos
      THEN ret.res = "Ok" /\ ret.val = ret.np
      ELSE /\ ret.res = "None" <=> ret.arg + 1 = ret.np
           /\ ret.res = "Future" <=> ret.arg > ret.np
           /\ ret.res = "Past" <=> ret.arg + 1 < ret.np
           /\ ret.res = "Ok" <=> ret.arg = ret.np
           /\ ret.res = "Ok" => ret.val = ret.arg

\* A positioned append was a replay of the most recent append.
AppendOutcomeWitness ==
    /\ ret.op = "append" /\ ret.res = "None"
    /\ ret.arg + 1 = ret.np

\* C5 -- Position monotonicity: while a queue lives, across operations and
\* reopens, next_position never decreases; it changes only when an append
\* succeeds, which returns the old next_position and adds 1 to it, so that
\* successive appends return successive positions and none is given twice.
PositionMonotonicity ==
    [][\A q \in DOMAIN mem \cap DOMAIN mem' :
         /\ mem'[q].np >= mem[q].np
         /\ mem'[q].np # mem[q].np =>
              /\ ret'.op = "append" /\ ret'.res = "Ok" /\ ret'.q = q
              /\ ret'.val = mem[q].np
              /\ mem'[q].np = mem[q].np + 1]_vars

\* C6 -- Truncate semantics: an accepted truncate(queue, position) has
\* position < next_position, removes exactly the records at or below
\* position, keeps every other record unchanged, keeps next_position, and
\* empties the queue with first_retained_position = next_position when
\* position >= next_position - 1; truncate on an existing queue fails with
\* Future iff position >= next_position.
TruncateSemantics ==
    [][/\ (pc.op = "idle" /\ pc'.op = "truncate") =>
            LET q == pc'.q
                position == pc'.pos
                old == mem[q]
                new == mem'[q]
            IN /\ position < old.np
               /\ q \in DOMAIN mem'
               /\ DOMAIN new.recs = {p \in DOMAIN old.recs : p > position}
               /\ \A p \in DOMAIN new.recs : new.recs[p] = old.recs[p]
               /\ new.np = old.np
               /\ position >= old.np - 1 =>
                    (DOMAIN new.recs = {} /\ new.frp = old.np)
       /\ (ret'.op = "truncate" /\ ret'.np # NoPos) =>
            (ret'.res = "Future" <=> ret'.arg >= ret'.np)]_vars

\* A truncate in progress has removed a record and left a later one.
TruncateSemanticsWitness ==
    /\ pc.op = "truncate"
    /\ pc.pos >= preMem.mem[pc.q].frp
    /\ DOMAIN mem[pc.q].recs # {}
    /\ DOMAIN mem[pc.q].recs # DOMAIN preMem.mem[pc.q].recs

\* The payload last appended to queue q at position p: that of the last
\* append frame of (q, p) in the log.
AppendedPayload(frames, q, p) ==
    LET at == {i \in 1..Len(frames) :
                 /\ frames[i].frame.type = "AppendRecord"
                 /\ frames[i].frame.queue = q
                 /\ frames[i].frame.position = p}
    IN IF at = {} THEN NoPayload ELSE frames[Max(at)].frame.payload

RECURSIVE ExpectedItems(_, _, _, _)
ExpectedItems(frames, q, a, b) ==
    IF a >= b THEN <<>>
    ELSE (IF mem[q].frp <= a /\ a < mem[q].np
          THEN << <<a, AppendedPayload(frames, q, a)>> >> ELSE <<>>)
         \o ExpectedItems(frames, q, a + 1, b)

\* C7 -- Range: on an existing queue range(queue, a..b) yields, in
\* increasing position order, exactly the pairs (p, payload appended at p)
\* with a <= p < b and first_retained_position <= p < next_position; on an
\* absent queue it yields None.
RangeContract ==
    up =>
      LET frames == RetainedFrames
      IN \A q \in Queues :
        IF q \in DOMAIN mem
        THEN \A a \in 0..mem[q].np : \A b \in a..(mem[q].np + 1) :
               LET r == EngineRange(mem, q, a, b)
               IN r.some /\ r.items = ExpectedItems(frames, q, a, b)
        ELSE \A a \in ArgPositions : \A b \in ArgPositions :
               ~EngineRange(mem, q, a, b).some

\* A queue truncated in part: the range from 0 yields its remaining records
\* only, and there are some.
RangeWitness ==
    \E q \in DOMAIN mem :
      /\ mem[q].frp > 0
      /\ Len(EngineRange(mem, q, 0, mem[q].np).items) > 0
      /\ Len(EngineRange(mem, q, 0, mem[q].np).items) < mem[q].np

\* C8 -- Torn tail recovery: when the last frame written is lost, open()
\* succeeds and yields the state the engine had when the operation step
\* that wrote the frame began.
TornTailRecovery ==
    preMem.valid =>
      LET r == Open(TornTail(files, cur, 1), lo, cur)
      IN r.ok /\ r.mem = preMem.mem

\* C9 -- Redundant create is harmless: create_queue on an existing queue
\* returns AlreadyExists, leaves the in-memory state unchanged, and a later
\* open() succeeds and recovers the queue with the same next_position,
\* first_retained_position and records.
RedundantCreateHarmless ==
    /\ ret.op = "create" => (ret.res = "AlreadyExists" <=> ret.np # NoPos)
    /\ (pc.op = "idle" /\ ret.op = "create" /\ ret.res = "AlreadyExists") =>
         /\ mem = preMem.mem
         /\ Recovered.ok
         /\ ret.q \in DOMAIN Recovered.mem
         /\ Recovered.mem[ret.q].np = mem[ret.q].np
         /\ Recovered.mem[ret.q].frp = mem[ret.q].frp
         /\ Recovered.mem[ret.q].recs = mem[ret.q].recs

\* C10 -- Queue deletion: delete_queue fails with MissingQueue iff the
\* queue is absent; once it succeeded the queue does not exist and range
\* yields None; a create_queue of a name deleted before (its DeleteQueue
\* frame is in the log) yields an empty queue at next_position 0, in the
\* running engine and after reopen.
QueueDeletion ==
    /\ ret.op = "delete" =>
         /\ ret.res = "MissingQueue" <=> ret.np = NoPos
         /\ ret.res = "Ok" =>
              (ret.q \notin DOMAIN mem
               /\ ~EngineRange(mem, ret.q, 0, MaxFrames).some)
    /\ (pc.op = "idle" /\ ret.op = "create" /\ ret.res = "Ok"
          /\ \E i \in 1..Len(RetainedFrames) :
                RetainedFrames[i].frame.type = "DeleteQueue"
                /\ RetainedFrames[i].frame.queue = ret.q) =>
         /\ mem[ret.q].np = 0 /\ mem[ret.q].frp = 0
         /\ DOMAIN mem[ret.q].recs = {}
         /\ Recovered.ok
         /\ ret.q \in DOMAIN Recovered.mem
         /\ Recovered.mem[ret.q].np = 0
         /\ DOMAIN Recovered.mem[ret.q].recs = {}

\* The values by which a handler reports that it rejected the call.
IsRejection(r) ==
    \/ r.op = "append" /\ r.res \in {"None", "Past", "Future", "MissingQueue"}
    \/ r.op = "truncate" /\ r.res \in {"Future", "MissingQueue"}
    \/ r.op = "delete" /\ r.res = "MissingQueue"

\* C11 -- Rejected operations have no effect: a step in which append_record
\* returns Ok(None), Past, Future or MissingQueue, truncate returns Future
\* or MissingQueue, or delete_queue returns MissingQueue writes no frame,
\* deletes no file and leaves the in-memory state of every queue unchanged.
RejectedNoEffect ==
    [][(ret' # ret /\ IsRejection(ret')) =>
         /\ files' = files /\ cur' = cur /\ unflushed' = unflushed
         /\ lo' = lo
         /\ mem' = mem]_vars

\* A truncate was rejected as Future on a queue that holds records.
RejectedNoEffectWitness ==
    /\ ret.op = "truncate" /\ ret.res = "Future"
    /\ ret.q \in DOMAIN mem
    /\ DOMAIN mem[ret.q].recs # {}

\* The length of the items of a multi-payload.
RECURSIVE ItemsLen(_)
ItemsLen(payloads) ==
    IF payloads = <<>> THEN 0
    ELSE 12 + Len(payloads[1]) + ItemsLen(Tail(payloads))

\* The codec has read back a whole frame, or a frame or blob cut short.
CodecReadWhole ==
    codec.mode = "frame" /\ codec.step = "done" /\ Len(codec.buffer) = codec.full
CodecReadPrefix == codec.step = "done" /\ Len(codec.buffer) < codec.full

\* C12 -- Codec round-trip: for every record value r of the four kinds,
\* an AppendRecords with any multi-payload included,
\* deserialize(serialize(r)) = Some(r).
CodecRoundTrip ==
    CodecReadWhole => codec.out = CodecSome(codec.record)

\* C12 as amended: deserialize(serialize(r)) is Some of r with the iterator
\* of its multi-payload reset to the first item; it is Some(r) when next()
\* was not called on r's records.
CodecRoundTripReset ==
    CodecReadWhole =>
      /\ codec.out = CodecSome([codec.record EXCEPT
                                  !.records = ResetPosition(@)])
      /\ codec.nexts = 0 => codec.out = CodecSome(codec.record)

\* An AppendRecords record of two items, whose positions differ from the
\* outer position, was serialized and read back.
CodecRoundTripWitness ==
    /\ CodecReadWhole
    /\ codec.record.kind = "AppendRecords"
    /\ Len(codec.payloads) = 2
    /\ codec.start # codec.record.position
    /\ codec.nexts = 0
    /\ codec.out = CodecSome(codec.record)

\* C13 -- Codec robustness: on every strict prefix of a serialized frame
\* deserialize returns None and does not panic; on every strict prefix of
\* a serialized multi-payload MultiRecord::new returns an error and does
\* not panic.
CodecPrefixRejected ==
    CodecReadPrefix =>
      IF codec.mode = "frame" THEN codec.out = CodecNone
                              ELSE codec.blob.res = "Err"

\* C13 as amended: on a strict prefix neither function panics; deserialize
\* returns None and MultiRecord::new an error, except when the prefix ends
\* where an item of the multi-payload ends (or where the queue name of an
\* AppendRecords frame ends, or the blob begins): then the result is the
\* record, or the multi-payload, of the items before the cut.
CodecPrefixOutcome ==
    CodecReadPrefix =>
      LET head == IF codec.mode = "frame"
                  THEN 11 + Len(codec.record.queue) ELSE 0
          whole == {k \in 0..Len(codec.payloads) :
                      Len(codec.buffer) =
                        head + ItemsLen(SubSeq(codec.payloads, 1, k))}
          kept == NewUnchecked(MultiRecordSerialize(
                      SubSeq(codec.payloads, 1, Max(whole)), codec.start))
      IN IF codec.mode = "frame"
         THEN codec.out =
                IF codec.record.kind = "AppendRecords" /\ whole # {}
                THEN CodecSome([codec.record EXCEPT !.records = kept])
                ELSE CodecNone
         ELSE codec.blob =
                IF whole # {} THEN [res |-> "Ok", records |-> kept]
                ELSE [res |-> "Err", records |-> NoRecords]

\* A frame of two items cut inside its second item was rejected, and a
\* multi-payload cut inside an item header was.
CodecPrefixWitness ==
    /\ CodecReadPrefix
    /\ Len(codec.payloads) = 2
    /\ IF codec.mode = "frame"
       THEN /\ Len(codec.buffer) > 11 + Len(codec.record.queue)
                                     + 12 + Len(codec.payloads[1])
            /\ codec.out = CodecNone
       ELSE /\ Len(codec.buffer) = 12 + Len(codec.payloads[1]) + 9
            /\ codec.blob.res = "Err"

\* C14 -- Contiguity: in every reachable state, the states after recovery
\* included, the positions that hold a record of a queue are exactly
\* first_retained_position .. next_position - 1, with
\* first_retained_position <= next_position; each of them holds one
\* payload, the one appended there.
Contiguity ==
    up =>
      LET frames == RetainedFrames
      IN \A q \in DOMAIN mem :
        /\ mem[q].frp <= mem[q].np
        /\ DOMAIN mem[q].recs = mem[q].frp..(mem[q].np - 1)
        /\ LivePositions(mem[q]) = DOMAIN mem[q].recs
        /\ \A p \in DOMAIN mem[q].recs :
             mem[q].recs[p].payload = AppendedPayload(frames, q, p)

\* Recovery has rebuilt a queue truncated in part: positions below
\* first_retained_position are gone, later ones are held.
ContiguityWitness ==
    /\ ret.op = "open" /\ ret.res = "Ok"
    /\ \E q \in DOMAIN mem : mem[q].frp > 0 /\ DOMAIN mem[q].recs # {}

\* The retained frames that can give a queue its origin in a replay.
OriginFrames(q) ==
    {i \in 1..Len(RetainedFrames) :
       /\ RetainedFrames[i].frame.queue = q
       /\ RetainedFrames[i].frame.type \in {"Touch", "AppendRecord"}}

\* The replay creates the queue when it meets the first of these frames.
OriginReplays(q) ==
    /\ OriginFrames(q) # {}
    /\ LET first == RetainedFrames[Min(OriginFrames(q))]
           st == ApplyRecord([ok |-> TRUE, mem |-> EmptyMem],
                             first.file, first.frame)
       IN st.ok /\ q \in DOMAIN st.mem

\* C15 -- Queue origin is retained: in every reachable state, after the gc
\* of a truncate in particular, the file first_file_number of every
\* existing queue has not been deleted and holds a RecordPosition or an
\* append frame of that queue, so that a replay of the retained files
\* creates the queue anew.
QueueOriginRetained ==
    up =>
      \A q \in DOMAIN mem :
        /\ mem[q].ffn \in lo..cur
        /\ \E i \in 1..Len(files[mem[q].ffn]) :
             /\ files[mem[q].ffn][i].queue = q
             /\ files[mem[q].ffn][i].type \in {"Touch", "AppendRecord"}
        /\ OriginReplays(q)

\* C16 -- GC completeness: when truncate returns Ok, every file below the
\* smallest first_file_number of the existing queues is deleted, and the
\* retained files are exactly that number up to the current file.
GcCompleteness ==
    (up /\ ret.op = "truncate" /\ ret.res = "Ok") =>
      LET least == Min({mem[q].ffn : q \in DOMAIN mem})
      IN /\ DOMAIN mem # {}
         /\ \A f \in DOMAIN files : f < least => files[f] = <<>>
         /\ lo..cur = least..cur
         /\ lo..cur = UNION {mem[q].ffn..cur : q \in DOMAIN mem}

\* A truncate has returned after its gc deleted a file, and more than one
\* file is retained.
GcCompletenessWitness ==
    /\ ret.op = "truncate" /\ ret.res = "Ok"
    /\ lo > 0 /\ cur > lo
    /\ \E q \in DOMAIN mem : mem[q].ffn = lo

\* The retained RecordPosition frames of a queue.
TouchFrames(q) ==
    {i \in 1..Len(RetainedFrames) :
       /\ RetainedFrames[i].frame.queue = q
       /\ RetainedFrames[i].frame.type = "Touch"}

\* C17 -- Empty-queue pinning: between two operations the
\* first_file_number of an empty queue is the file its most recent
\* RecordPosition frame was written in; when a truncate has returned Ok,
\* every empty queue has a RecordPosition{queue, next_position} frame
\* emitted by that truncate, and its first_file_number is the file of
\* that frame.
EmptyQueuePinned ==
    (up /\ pc.op = "idle") =>
      \A q \in DOMAIN mem :
        IsEmptyQueue(mem[q]) =>
          /\ TouchFrames(q) # {}
          /\ LET last == Max(TouchFrames(q))
             IN /\ mem[q].ffn = RetainedFrames[last].file
                /\ (ret.op = "truncate" /\ ret.res = "Ok") =>
                     /\ RetainedFrames[last].frame.position = mem[q].np
                     /\ \A j \in (last + 1)..Len(RetainedFrames) :
                          RetainedFrames[j].frame.type = "Touch"

\* C18 -- Truncate flushes before it collects: files are deleted only by
\* the last step of truncate, when the Truncate frame and the
\* RecordPosition frame of every empty queue are written and flushed; so
\* whenever the process crashes, the files deleted so far host no record
\* that is live in the state recovered from the frames durable at the
\* time of the deletion.
TruncateFlushBeforeGc ==
    [][lo' # lo =>
         /\ pc.op = "truncate" /\ pc.todo = {}
         /\ unflushed = 0
         /\ RetainedFrames[Len(RetainedFrames)].frame.type
               \in {"Truncate", "Touch"}
         /\ LET r == ReplayFrom([ok |-> TRUE, mem |-> EmptyMem],
                                FlushedFrames)
            IN r.ok =>
                 \A q \in DOMAIN r.mem : \A p \in LivePositions(r.mem[q]) :
                   r.mem[q].recs[p].file >= lo']_vars

\* A truncate is about to delete a file while the state recovered from the
\* durable frames holds a live record.
TruncateFlushBeforeGcWitness ==
    /\ pc.op = "truncate" /\ pc.step = "gc" /\ unflushed = 0
    /\ GcThreshold(mem, cur) > lo
    /\ Recovered.ok
    /\ \E q \in DOMAIN Recovered.mem : LivePositions(Recovered.mem[q]) # {}

\* C19 -- Self-produced logs never read as corrupt: after any sequence of
\* operations without a crash (truncates whose gc deletes files, partial
\* truncates, deletions and redundant creates included), open() on the
\* retained files does not return Corruption.
NoSelfCorruption ==
    /\ (up /\ pc.op = "idle") => Recovered.ok
    /\ ret.op = "open" => ret.res = "Ok"

\* The queue an operation step works on.
StepQueue ==
    IF pc.op # "idle" THEN pc.q
    ELSE IF pc'.op # "idle" THEN pc'.q
    ELSE ret'.q

\* C20 -- Queue independence: a step of create_queue, delete_queue,
\* append_record or truncate on a queue A leaves the existence,
\* next_position, first_retained_position and records of every other
\* queue B as they were; the first_file_number of B changes only when
\* truncate(A) touches B, B being empty, and it becomes the file current
\* when the RecordPosition frame of B is emitted.
QueueIndependence ==
    [][ret'.op # "open" =>
         \A B \in Queues \ {StepQueue} :
           /\ B \in DOMAIN mem <=> B \in DOMAIN mem'
           /\ B \in DOMAIN mem =>
                /\ mem'[B].np = mem[B].np
                /\ mem'[B].frp = mem[B].frp
                /\ mem'[B].recs = mem[B].recs
                /\ mem'[B].ffn # mem[B].ffn =>
                     /\ pc.op = "truncate"
                     /\ IsEmptyQueue(mem[B])
                     /\ mem'[B].ffn = cur
                     /\ mem'[B].ffn > mem[B].ffn]_vars

\* truncate(A) has moved the first_file_number of an empty queue B forward.
QueueIndependenceWitness ==
    /\ pc.op = "truncate" /\ preMem.valid
    /\ \E B \in (DOMAIN mem \cap DOMAIN preMem.mem) \ {pc.q} :
         /\ IsEmptyQueue(mem[B])
         /\ mem[B].np = preMem.mem[B].np
         /\ mem[B].ffn > preMem.mem[B].ffn

====
